---- MODULE Spec2Model ----
(***************************************************************************)
(* Model of two pieces of the charts library:                              *)
(*   - QSplineSeriesPrivate (src/src/splinechart/qsplineseries.cpp): the   *)
(*     control-point buffer of a spline series and its recomputation on    *)
(*     every series mutation signal;                                       *)
(*   - VerticalAxis::updateGeometry (src/src/axis/verticalaxis.cpp): the   *)
(*     vertical geometry and the visibility of grid lines, tick marks,     *)
(*     labels and shades.                                                  *)
(* qreal values of the spline are exact rationals <<num, den>> (den > 0,   *)
(* lowest terms), so that an equation of the solver is checked exactly.    *)
(* The axis works on whole-pixel inputs; its coordinates are counted in    *)
(* half pixels so that every x / 2.0 the code takes is exact.              *)
(***************************************************************************)
EXTENDS Integers, Sequences, FiniteSets, TLC

VARIABLES
    \* ---- QSplineSeries
    points,            \* q->points(): sequence of <<x, y>> (integers)
    m_controlPoints,   \* QSplineSeriesPrivate::m_controlPoints: sequence of <<rx, ry>>
    xControl,          \* local xControl of the last calculateControlPoints call
    yControl,          \* local yControl of the last calculateControlPoints call
    trace,             \* what the last calculateControlPoints call touched (NoCall before)
    \* ---- VerticalAxis
    layout,            \* ChartAxisElement::layout(): tick positions
    intervalAxis,      \* intervalAxis()
    axisRect,          \* axisGeometry(): [top, bottom]
    gridRect,          \* gridGeometry(): [left, top, right, bottom]
    labelRect,         \* labelItem->boundingRect().height() per label
    boundingRect,      \* height of the boundingRect truncatedText returns, per label
    lines,             \* gridItems(): index -> [x1, y1, x2, y2, visible]
    tickItems,         \* arrowItems() from index 1: index -> [y, visible]
    labels,            \* labelItems(): index -> [y, visible]
    shades,            \* shadeItems(): index -> [top, height, visible]
    pass               \* "idle" before, "done" after updateGeometry returned

splineVars == <<points, m_controlPoints, xControl, yControl, trace>>
axisVars == <<layout, intervalAxis, axisRect, gridRect, labelRect, boundingRect,
              lines, tickItems, labels, shades, pass>>
vars == <<splineVars, axisVars>>

-----------------------------------------------------------------------------
(* Bounds of the model.                                                    *)
MaxPoints == 4
MaxBulk == 2
MaxTicks == 5
MaxUnordered == 3

-----------------------------------------------------------------------------
(* qreal arithmetic, exact.                                                *)
Abs(a) == IF a < 0 THEN -a ELSE a

RECURSIVE GCD(_, _)
GCD(a, b) == IF b = 0 THEN a ELSE GCD(b, a % b)

Norm(n, d) ==
    LET g == GCD(Abs(n), Abs(d))
        s == IF d < 0 THEN -1 ELSE 1
    IN  <<(s * n) \div g, (s * d) \div g>>

R(i) == <<i, 1>>
RAdd(a, b) == Norm(a[1] * b[2] + b[1] * a[2], a[2] * b[2])
RSub(a, b) == Norm(a[1] * b[2] - b[1] * a[2], a[2] * b[2])
RMul(a, b) == Norm(a[1] * b[1], a[2] * b[2])
RDiv(a, b) == Norm(a[1] * b[2], a[2] * b[1])

(* 0-based access and update, as the code indexes.                         *)
At(s, i) == s[i + 1]
Put(s, i, v) == [s EXCEPT ![i + 1] = v]
Px(p) == R(p[1])
Py(p) == R(p[2])

-----------------------------------------------------------------------------
(* QSplineSeriesPrivate::firstControlPoints                                *)

\* (i < count - 1 ? 4.0 : 3.5): the diagonal entry of row i
Pivot4(i, count) == R(4)
Pivot(i, count) == IF i < count - 1 THEN R(4) ELSE <<7, 2>>

\* the elimination loop, from index i on: b is the running pivot
RECURSIVE ForwardSweep(_, _, _, _, _)
ForwardSweep(vector, i, b, temp, result) ==
    LET count == Len(vector) IN
    IF i >= count THEN [temp |-> temp, result |-> result]
    ELSE LET t  == RDiv(R(1), b)
             nb == RSub(Pivot(i, count), t)
             r  == RDiv(RSub(At(vector, i), At(result, i - 1)), nb)
         IN  ForwardSweep(vector, i + 1, nb, Put(temp, i, t), Put(result, i, r))

\* the back-substitution loop, from index i on
RECURSIVE BackSubstitute(_, _, _, _)
BackSubstitute(count, i, temp, result) ==
    IF i >= count THEN result
    ELSE BackSubstitute(count, i + 1, temp,
             Put(result, count - i - 1,
                 RSub(At(result, count - i - 1),
                      RMul(At(temp, count - i), At(result, count - i)))))

firstControlPoints(vector) ==
    LET count == Len(vector)
        zero  == [k \in 1..count |-> R(0)]
        fw    == ForwardSweep(vector, 1, R(2), zero,
                              Put(zero, 0, RDiv(At(vector, 0), R(2))))
    IN  BackSubstitute(count, 1, fw.temp, fw.result)

-----------------------------------------------------------------------------
(* QSplineSeriesPrivate::calculateControlPoints                            *)

\* the n == 1 branch: the pair of the only segment, on one axis
ClosedFormHalf(p0, p1) ==
    LET c1 == RDiv(RAdd(RMul(R(2), p0), p1), R(2))
    IN  <<c1, RSub(RMul(R(2), c1), p0)>>
ClosedForm(p0, p1) ==
    LET c1 == RDiv(RAdd(RMul(R(2), p0), p1), R(3))
    IN  <<c1, RSub(RMul(R(2), c1), p0)>>

\* the interior rows of the right-hand side, from index i on
RECURSIVE RhsLoop(_, _, _)
RhsLoop(c, i, vector) ==
    IF i >= (Len(c) - 1) - 1 THEN vector
    ELSE RhsLoop(c, i + 1,
             Put(vector, i, RAdd(RMul(R(4), At(c, i)), RMul(R(2), At(c, i + 1)))))

\* the right-hand side of one axis; c holds that axis' coordinates of the points
RhsVector(c) ==
    LET n  == Len(c) - 1
        v0 == Put([k \in 1..n |-> R(0)], 0, RAdd(At(c, 0), RMul(R(2), At(c, 1))))
        v1 == RhsLoop(c, 1, v0)
    IN  Put(v1, n - 1, RDiv(RAdd(RMul(R(8), At(c, n - 1)), At(c, n)), R(2)))

\* the second control point of segment i on one axis
SecondControlNoMirror(c, ctl, i) ==
    LET n == Len(c) - 1 IN
    IF i < n - 1 THEN RSub(At(c, i + 1), At(ctl, i + 1))
    ELSE RDiv(RAdd(At(c, n), At(ctl, n - 1)), R(2))
SecondControl(c, ctl, i) ==
    LET n == Len(c) - 1 IN
    IF i < n - 1 THEN RSub(RMul(R(2), At(c, i + 1)), At(ctl, i + 1))
    ELSE RDiv(RAdd(At(c, n), At(ctl, n - 1)), R(2))

\* the loop that fills m_controlPoints, from segment i on (j = 2 * i)
RECURSIVE StoreLoop(_, _, _, _, _, _)
StoreLoop(cx, cy, xc, yc, i, buf) ==
    IF i >= Len(cx) - 1 THEN buf
    ELSE LET j  == 2 * i
             b1 == Put(buf, j, <<At(xc, i), At(yc, i)>>)
             b2 == Put(b1, j + 1, <<SecondControl(cx, xc, i), SecondControl(cy, yc, i)>>)
         IN  StoreLoop(cx, cy, xc, yc, i + 1, b2)

\* the indices the code uses, by container, for n = points.count() - 1
PointIndices(n) ==
    IF n = 1 THEN {0, 1}
    ELSE {0, 1} \cup UNION {{i, i + 1} : i \in 1..(n - 2)} \cup {n - 1, n}
         \cup {i + 1 : i \in {k \in 0..(n - 1) : k < n - 1}}

\* vector, in calculateControlPoints and in firstControlPoints (count = n)
VectorIndices(n) ==
    IF n = 1 THEN {}
    ELSE {0} \cup (1..(n - 2)) \cup {n - 1} \cup {0} \cup (1..(n - 1))

\* result and temp in firstControlPoints (count = n)
SolverIndices(n) ==
    IF n = 1 THEN {}
    ELSE {0} \cup UNION {{i, i - 1} : i \in 1..(n - 1)}
         \cup UNION {{n - i - 1, n - i} : i \in 1..(n - 1)}

\* xControl and yControl in the loop that fills m_controlPoints
ControlIndicesOver(n) ==
    IF n = 1 THEN {}
    ELSE (0..(n - 1)) \cup {i + 1 : i \in {k \in 0..(n - 1) : k < n}} \cup {n - 1}
ControlIndices(n) ==
    IF n = 1 THEN {}
    ELSE (0..(n - 1)) \cup {i + 1 : i \in {k \in 0..(n - 1) : k < n - 1}} \cup {n - 1}

\* m_controlPoints
BufferIndices(n) ==
    IF n = 1 THEN {0, 1}
    ELSE UNION {{2 * i, 2 * i + 1} : i \in 0..(n - 1)}

NoCall == [count |-> 0, size |-> 0, pts |-> {}, vec |-> {}, sol |-> {},
           ctl |-> {}, buf |-> {}, solves |-> 0]

\* the whole call on points pts and the resized buffer buf
calculateControlPoints(pts, buf) ==
    LET n  == Len(pts) - 1
        cx == [k \in 1..Len(pts) |-> Px(pts[k])]
        cy == [k \in 1..Len(pts) |-> Py(pts[k])]
        tr == [count |-> Len(pts), size |-> Len(buf), pts |-> PointIndices(n),
               vec |-> VectorIndices(n), sol |-> SolverIndices(n),
               ctl |-> ControlIndices(n), buf |-> BufferIndices(n),
               solves |-> IF n = 1 THEN 0 ELSE 2]
    IN  IF n = 1
        THEN LET hx == ClosedForm(At(cx, 0), At(cx, 1))
                 hy == ClosedForm(At(cy, 0), At(cy, 1))
             IN  [buf |-> Put(Put(buf, 0, <<hx[1], hy[1]>>), 1, <<hx[2], hy[2]>>),
                  xc |-> <<>>, yc |-> <<>>, tr |-> tr]
        ELSE LET xc == firstControlPoints(RhsVector(cx))
                 yc == firstControlPoints(RhsVector(cy))
             IN  [buf |-> StoreLoop(cx, cy, xc, yc, 0, buf),
                  xc |-> xc, yc |-> yc, tr |-> tr]

\* QVector::resize: keeps the common prefix, pads with QPointF()
Resize(buf, k) ==
    [i \in 1..k |-> IF i <= Len(buf) THEN buf[i] ELSE <<R(0), R(0)>>]

(* QSplineSeriesPrivate::updateControlPoints, run on the points pts the    *)
(* series holds when the signal is delivered.                              *)
updateControlPoints(pts) ==
    IF Len(pts) > 1
    THEN LET c == calculateControlPoints(pts, Resize(m_controlPoints, 2 * Len(pts) - 2))
         IN  /\ m_controlPoints' = c.buf
             /\ xControl' = c.xc
             /\ yControl' = c.yc
             /\ trace' = c.tr
    ELSE UNCHANGED <<m_controlPoints, xControl, yControl, trace>>

-----------------------------------------------------------------------------
(* The four series mutations; each emits its signal, which the constructor *)
(* connected to updateControlPoints.                                       *)
PointValues == {<<0, 0>>, <<3, 9>>, <<1, 2>>}

RECURSIVE SeqsUpTo(_, _)
SeqsUpTo(S, k) ==
    IF k = 0 THEN {<<>>}
    ELSE LET shorter == SeqsUpTo(S, k - 1)
         IN  shorter \cup {Append(s, e) : s \in {t \in shorter : Len(t) = k - 1}, e \in S}

RemoveAt(s, k) == [i \in 1..(Len(s) - 1) |-> IF i < k THEN s[i] ELSE s[i + 1]]

pointAdded ==
    /\ Len(points) < MaxPoints
    /\ \E p \in PointValues :
          /\ points' = Append(points, p)
          /\ updateControlPoints(points')
    /\ UNCHANGED axisVars

pointRemoved ==
    /\ \E k \in 1..Len(points) :
          /\ points' = RemoveAt(points, k)
          /\ updateControlPoints(points')
    /\ UNCHANGED axisVars

pointReplaced ==
    /\ \E k \in 1..Len(points), p \in PointValues :
          /\ points' = [points EXCEPT ![k] = p]
          /\ updateControlPoints(points')
    /\ UNCHANGED axisVars

pointsReplaced ==
    /\ \E ps \in SeqsUpTo(PointValues, MaxBulk) :
          /\ points' = ps
          /\ updateControlPoints(points')
    /\ UNCHANGED axisVars

-----------------------------------------------------------------------------
(* VerticalAxis::updateGeometry.  A coordinate is a number of half pixels. *)
HalfPx(p) == 2 * p
Half(x) == x \div 2
Min(a, b) == IF a < b THEN a ELSE b
Max(a, b) == IF a > b THEN a ELSE b

\* label overlap detection: whether the label is hidden (height is the running
\* threshold, heightDiff = rect.height() - boundingRect.height())
LabelHiddenNoThreshold(posY, bh, heightDiff, height, forceHide, interval) ==
    /\ \/ forceHide
       \/ posY + Half(heightDiff) - HalfPx(1) > axisRect.bottom
       \/ posY + Half(heightDiff) < axisRect.top - HalfPx(1)
    /\ ~interval
LabelHidden(posY, bh, heightDiff, height, forceHide, interval) ==
    /\ \/ posY + bh > height
       \/ forceHide
       \/ posY + Half(heightDiff) - HalfPx(1) > axisRect.bottom
       \/ posY + Half(heightDiff) < axisRect.top - HalfPx(1)
    /\ ~interval

\* "label in between": whether the label of a too narrow category at the grid
\* edge is force-hidden
ForceHide(delta, bh, lowerBound, upperBound, interval) ==
    /\ delta < bh
    /\ (lowerBound = gridRect.bottom \/ upperBound = gridRect.top)
    /\ ~interval

\* rectItem->rect().height() <= 0.0
ShadeHiddenStrict(h) == h < 0
ShadeHidden(h) == h <= 0

\* y < gridRect.top() || y > gridRect.bottom()
OutsideGridInclusive(y) == y <= gridRect.top \/ y >= gridRect.bottom
OutsideGrid(y) == y < gridRect.top \/ y > gridRect.bottom

\* one iteration of the loop over the ticks; st carries the items and height
TickStep(i, st) ==
    LET n          == Len(layout)
        y          == At(layout, i)
        rectH      == At(labelRect, i)
        bh         == At(boundingRect, i)
        centerY    == Half(rectH)
        heightDiff == rectH - bh
        between    == intervalAxis /\ (i + 1) # n
        lowerBound == Min(y, gridRect.bottom)
        upperBound == Max(IF between THEN At(layout, i + 1) ELSE y, gridRect.top)
        delta      == lowerBound - upperBound
        forceHide  == between /\ ForceHide(delta, bh, lowerBound, upperBound, intervalAxis)
        posY       == IF between /\ ~forceHide
                      THEN lowerBound - Half(delta) - centerY
                      ELSE y - centerY
        hidden     == LabelHidden(posY, bh, heightDiff, st.height, forceHide, intervalAxis)
        shaded     == (i + 1) % 2 # 0 /\ i > 1
        sLower     == Min(At(layout, i - 1), gridRect.bottom)
        sUpper     == Max(y, gridRect.top)
        outside    == OutsideGrid(y)
    IN  [height |-> IF hidden THEN st.height ELSE posY,
         lines  |-> [st.lines EXCEPT ![i] =
                        [x1 |-> gridRect.left, y1 |-> y, x2 |-> gridRect.right,
                         y2 |-> y, visible |-> ~outside]],
         ticks  |-> [st.ticks EXCEPT ![i + 1] = [y |-> y, visible |-> ~outside]],
         labels |-> [st.labels EXCEPT ![i] = [y |-> posY, visible |-> ~hidden]],
         shades |-> IF shaded
                    THEN [st.shades EXCEPT ![i \div 2 - 1] =
                             [top |-> sUpper, height |-> sLower - sUpper,
                              visible |-> ~ShadeHidden(sLower - sUpper)]]
                    ELSE st.shades]

RECURSIVE TickLoop(_, _)
TickLoop(i, st) ==
    IF i >= Len(layout) THEN st ELSE TickLoop(i + 1, TickStep(i, st))

\* "begin/end grid line in case labels between"
BoundaryLinesBothTop(ls) ==
    LET n == Len(layout) IN
    [ls EXCEPT ![n]     = [x1 |-> gridRect.left, y1 |-> gridRect.top,
                           x2 |-> gridRect.right, y2 |-> gridRect.top, visible |-> TRUE],
               ![n + 1] = [x1 |-> gridRect.left, y1 |-> gridRect.top,
                           x2 |-> gridRect.right, y2 |-> gridRect.top, visible |-> TRUE]]
BoundaryLines(ls) ==
    LET n == Len(layout) IN
    [ls EXCEPT ![n]     = [x1 |-> gridRect.left, y1 |-> gridRect.top,
                           x2 |-> gridRect.right, y2 |-> gridRect.top, visible |-> TRUE],
               ![n + 1] = [x1 |-> gridRect.left, y1 |-> gridRect.bottom,
                           x2 |-> gridRect.right, y2 |-> gridRect.bottom, visible |-> TRUE]]

updateGeometry ==
    /\ pass = "idle"
    /\ pass' = "done"
    /\ IF Len(layout) = 0
       THEN UNCHANGED <<lines, tickItems, labels, shades>>
       ELSE LET st == TickLoop(0, [height |-> axisRect.bottom, lines |-> lines,
                                   ticks |-> tickItems, labels |-> labels,
                                   shades |-> shades])
            IN  /\ lines' = IF intervalAxis THEN BoundaryLines(st.lines) ELSE st.lines
                /\ tickItems' = st.ticks
                /\ labels' = st.labels
                /\ shades' = st.shades
    /\ UNCHANGED <<layout, intervalAxis, axisRect, gridRect, labelRect, boundingRect>>
    /\ UNCHANGED splineVars

-----------------------------------------------------------------------------
(* The inputs of a layout pass, in pixels.                                 *)
TickPixels == {-10, 0, 25, 50, 75, 100, 110}

\* the tick positions come in position order, along the axis or against it;
\* layouts of up to MaxUnordered ticks are taken in any order as well
RECURSIVE Descending(_, _)
Descending(S, k) ==
    IF k = 0 THEN {<<>>}
    ELSE LET shorter == Descending(S, k - 1)
         IN  shorter \cup
             UNION {{Append(s, e) : e \in {x \in S : Len(s) = 0 \/ x <= s[Len(s)]}} :
                    s \in {t \in shorter : Len(t) = k - 1}}

Reverse(s) == [i \in 1..Len(s) |-> s[Len(s) + 1 - i]]

Layouts ==
    LET down == Descending({HalfPx(p) : p \in TickPixels}, MaxTicks)
    IN  down \cup {Reverse(s) : s \in down}
             \cup SeqsUpTo({HalfPx(p) : p \in TickPixels}, MaxUnordered)

\* axisGeometry() and gridGeometry() as the sizing pass left them
Geometries ==
    {[axis |-> [top |-> HalfPx(0), bottom |-> HalfPx(100)],
      grid |-> [left |-> HalfPx(10), top |-> HalfPx(0),
                right |-> HalfPx(110), bottom |-> HalfPx(100)]],
     [axis |-> [top |-> HalfPx(0), bottom |-> HalfPx(100)],
      grid |-> [left |-> HalfPx(10), top |-> HalfPx(25),
                right |-> HalfPx(110), bottom |-> HalfPx(75)]],
     [axis |-> [top |-> HalfPx(-20), bottom |-> HalfPx(120)],
      grid |-> [left |-> HalfPx(30), top |-> HalfPx(0),
                right |-> HalfPx(90), bottom |-> HalfPx(100)]]}

\* per label: the height of the text item's rect and of the bounding rect the
\* truncation returned (0 for an empty label, whose text is never truncated)
LabelProfiles ==
    {[i \in 1..MaxTicks |-> [rect |-> HalfPx(10), bounding |-> HalfPx(10)]],
     [i \in 1..MaxTicks |-> [rect |-> HalfPx(38), bounding |-> HalfPx(30)]],
     [i \in 1..MaxTicks |-> IF i % 2 = 1
                            THEN [rect |-> HalfPx(18), bounding |-> HalfPx(0)]
                            ELSE [rect |-> HalfPx(18), bounding |-> HalfPx(10)]],
     [i \in 1..MaxTicks |-> IF i % 2 = 1
                            THEN [rect |-> HalfPx(10), bounding |-> HalfPx(10)]
                            ELSE [rect |-> HalfPx(30), bounding |-> HalfPx(30)]]}

\* the items as the scene holds them before the first pass
NewLine == [x1 |-> 0, y1 |-> 0, x2 |-> 0, y2 |-> 0, visible |-> TRUE]
NewTick == [y |-> 0, visible |-> TRUE]
NewLabel == [y |-> 0, visible |-> TRUE]
NewShade == [top |-> 0, height |-> 0, visible |-> TRUE]

-----------------------------------------------------------------------------
SplineInit ==
    /\ points = <<>>
    /\ m_controlPoints = <<>>
    /\ xControl = <<>>
    /\ yControl = <<>>
    /\ trace = NoCall

AxisItemsInit ==
    /\ lines = [i \in 0..(MaxTicks + 1) |-> NewLine]
    /\ tickItems = [i \in 1..MaxTicks |-> NewTick]
    /\ labels = [i \in 0..(MaxTicks - 1) |-> NewLabel]
    /\ shades = [k \in 0..((MaxTicks - 1) \div 2 - 1) |-> NewShade]
    /\ pass = "idle"

\* the series alone: the axis has no ticks and is never laid out
Init ==
    /\ SplineInit
    /\ layout = <<>>
    /\ intervalAxis = FALSE
    /\ axisRect = [top |-> 0, bottom |-> 0]
    /\ gridRect = [left |-> 0, top |-> 0, right |-> 0, bottom |-> 0]
    /\ labelRect = <<>>
    /\ boundingRect = <<>>
    /\ AxisItemsInit

Next == pointAdded \/ pointRemoved \/ pointReplaced \/ pointsReplaced

Spec == Init /\ [][Next]_vars

\* the axis alone: one layout pass over every input
AxisInit ==
    /\ SplineInit
    /\ \E ticks \in Layouts, g \in Geometries, prof \in LabelProfiles, interval \in BOOLEAN :
          /\ layout = ticks
          /\ intervalAxis = interval
          /\ axisRect = g.axis
          /\ gridRect = g.grid
          /\ labelRect = [i \in 1..Len(ticks) |-> prof[i].rect]
          /\ boundingRect = [i \in 1..Len(ticks) |-> prof[i].bounding]
    /\ AxisItemsInit

AxisNext == updateGeometry

AxisSpec == AxisInit /\ [][AxisNext]_vars

-----------------------------------------------------------------------------
(* Properties of the spline series, checked under Spec.                    *)

\* the stored first and second control point of segment i (0-based), and the
\* data points, per axis (a = 1 for x, a = 2 for y)
Cp1(i, a) == At(m_controlPoints, 2 * i)[a]
Cp2(i, a) == At(m_controlPoints, 2 * i + 1)[a]
P(i, a) == R(At(points, i)[a])
Segments == Len(points) - 1

\* C1: after every mutation and its updateControlPoints the buffer holds
\* exactly 2 * max(0, len(points) - 1) control points; none of a longer, earlier
\* point sequence remains once fewer than 2 points are left.
C1_BufferMatchesPoints ==
    Len(m_controlPoints) = 2 * Max(0, Len(points) - 1)

\* C2: with exactly 2 points the one stored pair is cp1 = (2*P0 + P1)/3 and
\* cp2 = 2*cp1 - P0 on each axis, and no tridiagonal solve ran; P0 = (0,0),
\* P1 = (3,9) gives (1,3) and (2,6).
C2_ClosedForm ==
    Len(points) = 2 =>
        /\ Len(m_controlPoints) = 2
        /\ \A a \in {1, 2} :
              /\ RMul(R(3), Cp1(0, a)) = RAdd(RMul(R(2), P(0, a)), P(1, a))
              /\ Cp2(0, a) = RSub(RMul(R(2), Cp1(0, a)), P(0, a))
        /\ trace.count = 2 /\ trace.solves = 0
        /\ points = <<(<<0, 0>>), (<<3, 9>>)>> =>
               m_controlPoints = <<(<<R(1), R(3)>>), (<<R(2), R(6)>>)>>

C2_Witness ==
    /\ points = <<(<<0, 0>>), (<<3, 9>>)>>
    /\ m_controlPoints = <<(<<R(1), R(3)>>), (<<R(2), R(6)>>)>>

\* the rows of the system on axis a, with the last diagonal entry given:
\* 2*c0 + c1 = P0 + 2*P1;  c[i-1] + 4*c[i] + c[i+1] = 4*P[i] + 2*P[i+1];
\* c[n-2] + last*c[n-1] = (8*P[n-1] + P[n]) / 2
SolvesSystem(a, last) ==
    LET n == Segments IN
    /\ RAdd(RMul(R(2), Cp1(0, a)), Cp1(1, a)) = RAdd(P(0, a), RMul(R(2), P(1, a)))
    /\ \A i \in 1..(n - 2) :
          RAdd(RAdd(Cp1(i - 1, a), RMul(R(4), Cp1(i, a))), Cp1(i + 1, a))
              = RAdd(RMul(R(4), P(i, a)), RMul(R(2), P(i + 1, a)))
    /\ RAdd(Cp1(n - 2, a), RMul(last, Cp1(n - 1, a)))
          = RDiv(RAdd(RMul(R(8), P(n - 1, a)), P(n, a)), R(2))

\* C3 (as stated): with 3 or more points the first control points of each axis
\* solve the tridiagonal system with diagonal 2,4,...,4,7, off-diagonals 1 and
\* right-hand side P0 + 2*P1, 4*P[i] + 2*P[i+1], (8*P[n-1] + P[n])/2.
C3_Diagonal7 ==
    Len(points) >= 3 =>
        /\ Len(m_controlPoints) = 2 * Segments
        /\ \A a \in {1, 2} : SolvesSystem(a, R(7))

\* C3 (amended): the same system with 3.5 as the last diagonal entry (the row
\* 2, 7 | 8*P[n-1] + P[n] of the code's comment, halved).
C3_TridiagonalSolution ==
    Len(points) >= 3 =>
        /\ Len(m_controlPoints) = 2 * Segments
        /\ \A a \in {1, 2} : SolvesSystem(a, <<7, 2>>)

C3_Witness ==
    /\ Len(points) = 4
    /\ trace.count = 4 /\ trace.solves = 2
    /\ \A a \in {1, 2} : Cp1(Segments - 1, a) # R(0)

\* C4: with 3 or more points the pairs are stored in segment order (index 2i
\* holds cp1[i], index 2i+1 holds cp2[i]); cp2[i] = 2*P[i+1] - cp1[i+1] for every
\* segment but the last, and cp2[n-1] = (P[n] + cp1[n-1]) / 2.
C4_SecondControlPoints ==
    Len(points) >= 3 =>
        LET n == Segments IN
        /\ Len(m_controlPoints) = 2 * n
        /\ Len(xControl) = n /\ Len(yControl) = n
        /\ \A i \in 0..(n - 1) :
              /\ At(m_controlPoints, 2 * i) = <<At(xControl, i), At(yControl, i)>>
              /\ \A a \in {1, 2} :
                    IF i < n - 1
                    THEN Cp2(i, a) = RSub(RMul(R(2), P(i + 1, a)), Cp1(i + 1, a))
                    ELSE RMul(R(2), Cp2(i, a)) = RAdd(P(n, a), Cp1(n - 1, a))

C4_Witness ==
    /\ Len(points) = 4
    /\ Len(m_controlPoints) = 6
    /\ At(points, 1) # At(points, 2)
    /\ \E a \in {1, 2} : Cp2(0, a) # Cp1(1, a)

\* C10: calculateControlPoints runs only with 2 or more points, on a buffer of
\* 2*count - 2 entries, and every index is in bounds: points in [0, count-1],
\* the right-hand side, temp, result and the solved vectors in [0, count-2],
\* the buffer in [0, 2*count-3].
C10_IndicesInBounds ==
    trace # NoCall =>
        /\ trace.count >= 2
        /\ trace.size = 2 * trace.count - 2
        /\ trace.pts \subseteq 0..(trace.count - 1)
        /\ trace.vec \subseteq 0..(trace.count - 2)
        /\ trace.sol \subseteq 0..(trace.count - 2)
        /\ trace.ctl \subseteq 0..(trace.count - 2)
        /\ trace.buf \subseteq 0..(trace.size - 1)
        /\ trace.buf \subseteq 0..(2 * trace.count - 3)

\* three points: the interior loop of the right-hand side runs zero times
C10_Witness ==
    /\ Len(points) = 3
    /\ trace.count = 3
    /\ trace.pts = {0, 1, 2}
    /\ trace.buf = {0, 1, 2, 3}

-----------------------------------------------------------------------------
(* Properties of the vertical axis, checked under AxisSpec.                *)

Ticks == Len(layout)
Done == pass = "done"
Tick(i) == At(layout, i)
BoundingHeight(i) == At(boundingRect, i)
VisibleLabels == {i \in 0..(Ticks - 1) : labels[i].visible}
Decreasing == \A i \in 1..(Ticks - 1) : Tick(i - 1) > Tick(i)
Increasing == \A i \in 1..(Ticks - 1) : Tick(i - 1) < Tick(i)
InsideGrid == \A i \in 0..(Ticks - 1) : gridRect.top <= Tick(i) /\ Tick(i) <= gridRect.bottom

\* C5 (as stated): outside interval mode, for all visible labels i < j the
\* bottom of label i is at most the top of label j, within one pixel.
C5_LabelsStackDownward ==
    (Done /\ ~intervalAxis) =>
        \A i \in VisibleLabels, j \in VisibleLabels :
            i < j => labels[i].y + BoundingHeight(i) <= labels[j].y + HalfPx(1)

\* C5 (amended): outside interval mode, for all visible labels i < j the bottom
\* of label j (its position plus the height of its truncated bounding box) is
\* at most the top of label i: the later label lies above the earlier one.
C5_LabelsStackUpward ==
    (Done /\ ~intervalAxis) =>
        \A i \in VisibleLabels, j \in VisibleLabels :
            i < j => labels[j].y + BoundingHeight(j) <= labels[i].y

\* five evenly spaced ticks in a grid of height 100, of which the pass shows
\* some labels and hides one that would overlap
C5_Witness ==
    /\ Done /\ ~intervalAxis
    /\ layout = <<HalfPx(100), HalfPx(75), HalfPx(50), HalfPx(25), HalfPx(0)>>
    /\ gridRect.bottom - gridRect.top = HalfPx(100)
    /\ Cardinality(VisibleLabels) >= 2
    /\ \E i \in 0..(Ticks - 1) :
          /\ ~labels[i].visible
          /\ axisRect.top < labels[i].y
          /\ labels[i].y + At(labelRect, i) < axisRect.bottom

\* C6: in interval mode the label of every tick but the last is hidden when its
\* clamped span is narrower than the label's bounding box and touches the top or
\* the bottom of the grid, and is otherwise centred on the midpoint of the span.
C6_NarrowCategoryHidden ==
    (Done /\ intervalAxis) =>
        \A i \in 0..(Ticks - 2) :
            LET lowerBound == Min(Tick(i), gridRect.bottom)
                upperBound == Max(Tick(i + 1), gridRect.top)
                delta      == lowerBound - upperBound
            IN  IF /\ delta < BoundingHeight(i)
                   /\ (lowerBound = gridRect.bottom \/ upperBound = gridRect.top)
                THEN ~labels[i].visible
                ELSE labels[i].y + Half(At(labelRect, i)) = lowerBound - Half(delta)

\* the height of the rectangle of band k, from the ticks 2k+1 and 2k+2
BandHeight(k) ==
    Min(Tick(2 * k + 1), gridRect.bottom) - Max(Tick(2 * k + 2), gridRect.top)
Bands == {k \in 0..Ticks : 2 * k + 2 <= Ticks - 1}
VisibleBands == {k \in Bands : shades[k].visible}

\* C7 (as stated): each band the pass wrote is visible iff its height is > 0,
\* and a monotonically increasing layout of n >= 1 ticks shows floor((n-1)/2)
\* bands.
C7_IncreasingLayoutBands ==
    Done =>
        /\ \A k \in Bands : shades[k].visible <=> BandHeight(k) > 0
        /\ (Ticks >= 1 /\ Increasing) =>
               Cardinality(VisibleBands) = (Ticks - 1) \div 2

\* C7 (amended): each band the pass wrote is visible iff its height is > 0, and
\* a layout of n >= 1 ticks with strictly decreasing pixel positions, all within
\* the grid, shows floor((n-1)/2) bands.
C7_ShadeBands ==
    Done =>
        /\ \A k \in Bands :
              /\ shades[k].visible <=> BandHeight(k) > 0
              /\ shades[k].height = BandHeight(k)
        /\ (Ticks >= 1 /\ Decreasing /\ InsideGrid) =>
               Cardinality(VisibleBands) = (Ticks - 1) \div 2

C7_Witness ==
    /\ Done /\ Ticks = 5 /\ Decreasing /\ InsideGrid
    /\ VisibleBands = {0, 1}
    /\ shades[0].height > 0 /\ shades[1].height > 0

\* whether the grid line at index i lies on height y across the grid
LineAt(i, y) ==
    /\ lines[i].visible
    /\ lines[i].y1 = y /\ lines[i].y2 = y
    /\ lines[i].x1 = gridRect.left /\ lines[i].x2 = gridRect.right

\* C8 (as stated): in interval mode, for every tick count, 0 included, the grid
\* lines at index tickCount and tickCount + 1 are visible and lie across the
\* grid at its top and at its bottom.
C8_BoundaryLinesAnyCount ==
    (Done /\ intervalAxis) =>
        LineAt(Ticks, gridRect.top) /\ LineAt(Ticks + 1, gridRect.bottom)

\* C8 (amended): the same for every tick count of at least 1.
C8_BoundaryLines ==
    (Done /\ intervalAxis /\ Ticks >= 1) =>
        LineAt(Ticks, gridRect.top) /\ LineAt(Ticks + 1, gridRect.bottom)

C8_Witness ==
    /\ Done /\ intervalAxis /\ Ticks >= 1
    /\ gridRect.top # 0
    /\ LineAt(Ticks, gridRect.top) /\ LineAt(Ticks + 1, gridRect.bottom)

\* C9: in both modes, grid line i and tick mark i + 1 have the same visibility
\* and are hidden iff the tick lies above the top or below the bottom of the
\* grid; a tick on either boundary stays visible.
C9_GridTickVisibility ==
    Done =>
        \A i \in 0..(Ticks - 1) :
            /\ lines[i].visible = tickItems[i + 1].visible
            /\ lines[i].y1 = Tick(i) /\ tickItems[i + 1].y = Tick(i)
            /\ ~lines[i].visible <=>
                   (Tick(i) < gridRect.top \/ Tick(i) > gridRect.bottom)

C9_Witness ==
    /\ Done /\ intervalAxis
    /\ \E i \in 0..(Ticks - 1) : Tick(i) = gridRect.top /\ lines[i].visible
    /\ \E i \in 0..(Ticks - 1) : Tick(i) = gridRect.bottom /\ tickItems[i + 1].visible
    /\ \E i \in 0..(Ticks - 1) : Tick(i) > gridRect.bottom /\ ~lines[i].visible
    /\ \E i \in 0..(Ticks - 1) : Tick(i) < gridRect.top /\ ~tickItems[i + 1].visible

====
